---- MODULE Spec2Model ----
(***************************************************************************)
(* reddit_fs: the FUSE adapter UserFS of src/src/user.rs.                  *)
(*                                                                         *)
(* State: the user registry (indexmap, insertion ordered), the post cache  *)
(* (hash map keyed by display name), the wall clock read by User::summary, *)
(* and whether the session thread is still alive (a panic in a handler     *)
(* ends it).  One action per fuse::Filesystem callback, plus the clock.    *)
(* `req` and `reply` are the callback being served and its reply on the    *)
(* way to the host; `host_attr` is the file attributes the host kept from  *)
(* the last reply; `fetches` and `postFetches` count the remote calls.     *)
(*                                                                         *)
(* Text (names, file contents) is a sequence of one-character strings, so  *)
(* that lowercasing, decimal formatting and byte lengths are computed.     *)
(***************************************************************************)
EXTENDS Integers, Sequences, FiniteSets, TLC

VARIABLES users, user_posts, now, alive, req, reply, host_attr, fetches, postFetches

vars == <<users, user_posts, now, alive, req, reply, host_attr, fetches, postFetches>>

----------------------------------------------------------------------------
(* Bounds of the model. *)

\* the clock advances at most this many seconds past Now0
MaxTicks == 1
\* at most this many remote fetch-profile calls per folded name
MaxFetches == 2
\* the remote returns at most this many posts for a user
MaxPosts == 1
\* readdir and read are called with offsets 0..MaxOffset
MaxOffset == 2
\* the codec is checked for the indices 0..MaxIndex
MaxIndex == 2

----------------------------------------------------------------------------
(* Text helpers. *)

NL == "\n"

UpperChars == <<"A","B","C","D","E","F","G","H","I","J","K","L","M",
                "N","O","P","Q","R","S","T","U","V","W","X","Y","Z">>
LowerChars == <<"a","b","c","d","e","f","g","h","i","j","k","l","m",
                "n","o","p","q","r","s","t","u","v","w","x","y","z">>

\* char::to_lowercase on ASCII
char_to_lowercase(c) ==
    IF \E i \in 1..Len(UpperChars) : UpperChars[i] = c
    THEN LowerChars[CHOOSE i \in 1..Len(UpperChars) : UpperChars[i] = c]
    ELSE c

\* String::to_lowercase (user.rs:128)
to_lowercase(s) == [i \in 1..Len(s) |-> char_to_lowercase(s[i])]

DigitChars == <<"0","1","2","3","4","5","6","7","8","9">>

RECURSIVE fmt_nat(_)
fmt_nat(n) ==
    IF n < 10 THEN <<DigitChars[n + 1]>>
    ELSE fmt_nat(n \div 10) \o <<DigitChars[(n % 10) + 1]>>

\* format!("{}", n) of a signed integer
fmt_int(n) == IF n < 0 THEN <<"-">> \o fmt_nat(0 - n) ELSE fmt_nat(n)

\* Rust's integer division truncates toward zero
trunc_div(a, b) == IF a >= 0 THEN a \div b ELSE 0 - ((0 - a) \div b)

----------------------------------------------------------------------------
(* Resource and its numeric encoding (derive(ENum), user.rs:11-31). *)

Top == [tag |-> "Top", idx |-> 0]
User(i) == [tag |-> "User", idx |-> i]
LinkKarma(i) == [tag |-> "LinkKarma", idx |-> i]
CommentKarma(i) == [tag |-> "CommentKarma", idx |-> i]
Username(i) == [tag |-> "Username", idx |-> i]
Created(i) == [tag |-> "Created", idx |-> i]
Summary(i) == [tag |-> "Summary", idx |-> i]
UserPosts(i) == [tag |-> "UserPosts", idx |-> i]
\* from_num of a number whose tag is none of the variants' panics
InvalidResource == [tag |-> "Invalid", idx |-> 0]

\* declaration order of the variants that carry an index; numbered from start_at
DataTags == <<"User", "LinkKarma", "CommentKarma", "Username", "Created",
              "Summary", "UserPosts">>

\* #[e_num(constant = 1)] on Top
TopNum == 1
\* #[e_num(start_at = 2)]
StartAt == 2
\* width of the tag field below the index
TagBits == 5

TagSpace == 2 ^ TagBits

\* Variant of tag_num: numbers the variants from the constant of Top.
tag_num_from_top(tag) ==
    TopNum + (CHOOSE k \in 1..Len(DataTags) : DataTags[k] = tag) - 1

tag_num(tag) == StartAt + (CHOOSE k \in 1..Len(DataTags) : DataTags[k] = tag) - 1

to_num(r) == IF r.tag = "Top" THEN TopNum ELSE r.idx * TagSpace + tag_num(r.tag)

from_num(n) ==
    IF n = TopNum THEN Top
    ELSE LET t == n % TagSpace
             k == t - StartAt + 1
         IN IF k \in 1..Len(DataTags)
            THEN [tag |-> DataTags[k], idx |-> n \div TagSpace]
            ELSE InvalidResource

from_ino(ino) == from_num(ino)
to_ino(r) == to_num(r)

Directory == "Directory"
RegularFile == "RegularFile"

filetype(r) ==
    IF r.tag \in {"Top", "User", "UserPosts"} THEN Directory ELSE RegularFile

----------------------------------------------------------------------------
(* User (user.rs:44-97). `about` is the record the remote returned:        *)
(* [name, link_karma, comment_karma, created].                             *)

\* time::Duration::num_days of (t - created), both in whole seconds
num_days(secs) == trunc_div(secs, 86400)

\* User::summary, rendered at wall-clock time t
summary(about, t) ==
    LET age == trunc_div(num_days(t - about.created), 365)
    IN about.name \o <<NL>>
       \o <<"L","i","n","k"," ","K","a","r","m","a",":"," ">>
       \o fmt_int(about.link_karma) \o <<NL>>
       \o <<"C","o","m","m","e","n","t"," ","K","a","r","m","a",":"," ">>
       \o fmt_int(about.comment_karma) \o <<NL>>
       \o <<"A"," ","r","e","d","d","i","t","o","r"," ","f","o","r"," ">>
       \o fmt_int(age)
       \o <<" ","y","e","a","r","s">> \o <<NL>>

timespec(about) == about.created

\* User::attrs; 420 = 0o644.  uid/gid are the process's and are left out.
attrs(about, ino, ftype, size) ==
    [ino |-> ino, size |-> size, blocks |-> size \div 512, time |-> timespec(about),
     kind |-> ftype, perm |-> 420, nlink |-> 0]

\* the FileAttr getattr builds for Top; 493 = 0o755
top_attrs(ino) ==
    [ino |-> ino, size |-> 0, blocks |-> 0, time |-> 0,
     kind |-> Directory, perm |-> 493, nlink |-> 0]

NoAttr == [ino |-> 0, size |-> 0, blocks |-> 0, time |-> 0,
           kind |-> "None", perm |-> 0, nlink |-> 0]

----------------------------------------------------------------------------
(* Replies of the fuse Reply* objects. *)

ENOENT == "ENOENT"
ENOTDIR == "ENOTDIR"

NoReply == [kind |-> "none", ttl |-> 0, attr |-> NoAttr, generation |-> 0,
            data |-> <<>>, entries |-> <<>>, errno |-> "none"]

\* reply.entry(ttl, attr, generation)
reply_entry(ttl, attr, generation) ==
    [NoReply EXCEPT !.kind = "entry", !.ttl = ttl, !.attr = attr,
                    !.generation = generation]
\* reply.attr(ttl, attr)
reply_attr(ttl, attr) == [NoReply EXCEPT !.kind = "attr", !.ttl = ttl, !.attr = attr]
\* reply.data(bytes)
reply_data(bytes) == [NoReply EXCEPT !.kind = "data", !.data = bytes]
\* reply.add(..)* ; reply.ok()
reply_dir(entries) == [NoReply EXCEPT !.kind = "dir", !.entries = entries]
\* reply.error(errno)
reply_error(errno) == [NoReply EXCEPT !.kind = "error", !.errno = errno]
\* the handler returned without using its reply object
reply_dropped == [NoReply EXCEPT !.kind = "dropped"]
\* the handler panicked
reply_panic == [NoReply EXCEPT !.kind = "panic"]

----------------------------------------------------------------------------
(* The remote client (rawr), seen through the two calls the adapter makes.  *)
(* A call fails or returns one of the records the remote may hold.          *)

\* names the host looks up under the root
UserNames == { <<"A","l">>, <<"a","l">>, <<"B","o">> }

\* the keys the registry can hold for them
Keys == { to_lowercase(n) : n \in UserNames }

NoAbout == [name |-> <<>>, link_karma |-> 0, comment_karma |-> 0, created |-> 0]

\* creation times of the remote's accounts (2005-12-08)
CreatedTimes == { 1134000000 }

\* the clock at mount: one second short of such an account's tenth year
Now0 == (CHOOSE c \in CreatedTimes : TRUE) + 3650 * 86400 - 1

\* the remote's spelling of an account's name: capitalised
display_name(name) ==
    LET key == to_lowercase(name)
    IN CHOOSE u \in UserNames :
         /\ to_lowercase(u) = key
         /\ u # key

\* the UserAboutData the remote may return for /user/{name}/about
RemoteAbouts(name) ==
    { [name |-> display_name(name), link_karma |-> lk, comment_karma |-> 3,
       created |-> c] : lk \in {7, 12}, c \in CreatedTimes }

\* a name that is no account of the remote's is not found
FetchOutcomes(name) ==
    { [ok |-> FALSE, about |-> NoAbout] }
    \cup IF to_lowercase(name) \in Keys
         THEN { [ok |-> TRUE, about |-> a] : a \in RemoteAbouts(name) }
         ELSE {}

\* limit=10 in the URL of fetch_user_posts
PostsLimit == 10

\* how many submissions a user may have at the remote: few, or more than the
\* limit of one request
PostCounts == (0..MaxPosts) \cup {PostsLimit + 1}

\* what the remote has for /user/{name}/submitted: an error, or the user's
\* submissions
PostOutcomes ==
    { [ok |-> FALSE, posts |-> <<>>] }
    \cup { [ok |-> TRUE, posts |-> [k \in 1..n |-> k]] : n \in PostCounts }

\* the request fetch_user_posts formats
posts_url(username) == [user |-> username, limit |-> PostsLimit]

\* client.get_json::<Listing>(url): the error, or a listing of at most `limit`
\* of the submissions
get_json(url, outcome) ==
    IF outcome.ok
    THEN [ok |-> TRUE,
          posts |-> SubSeq(outcome.posts, 1,
                           IF Len(outcome.posts) < url.limit
                           THEN Len(outcome.posts) ELSE url.limit)]
    ELSE outcome

\* User::fetch: Ok(User::new(res.data)) or the client's error
fetch(name, outcome) == outcome

\* fetch_user_posts: the children of the listing, or the client's error
fetch_user_posts(username, outcome) == get_json(posts_url(username), outcome)

----------------------------------------------------------------------------
(* UserFS (user.rs:99-169).  `us` is the registry: a sequence of            *)
(* [key, about] in insertion order; index i of the code is position i + 1.  *)
(* `ps` is the post cache: a function from display names to post lists.     *)

has_key(us, key) == \E j \in 1..Len(us) : us[j].key = key

\* indexmap Entry::index(): the entry's position, or len() for a vacant one
entry_index(us, key) ==
    IF has_key(us, key)
    THEN (CHOOSE j \in 1..Len(us) : us[j].key = key) - 1
    ELSE Len(us)

\* Variant of get_user_by_name: calls User::fetch even for a key it holds.
get_user_by_name_refetch(us, name, outcome) ==
    LET key == to_lowercase(name)
        i == entry_index(us, key)
        res == fetch(key, outcome)
    IN IF has_key(us, key)
       THEN [ok |-> TRUE, i |-> i, about |-> us[i + 1].about, users |-> us,
             fetched |-> <<key>>]
       ELSE IF res.ok
            THEN [ok |-> TRUE, i |-> i, about |-> res.about,
                  users |-> Append(us, [key |-> key, about |-> res.about]),
                  fetched |-> <<key>>]
            ELSE [ok |-> FALSE, i |-> i, about |-> NoAbout, users |-> us,
                  fetched |-> <<key>>]

\* Variant of get_user_by_name: inserts the entry before the fetch has succeeded.
get_user_by_name_partial(us, name, outcome) ==
    LET key == to_lowercase(name)
        i == entry_index(us, key)
        res == fetch(key, outcome)
    IN IF has_key(us, key)
       THEN [ok |-> TRUE, i |-> i, about |-> us[i + 1].about, users |-> us,
             fetched |-> <<>>]
       ELSE [ok |-> res.ok, i |-> i, about |-> res.about,
             users |-> Append(us, [key |-> key, about |-> res.about]),
             fetched |-> <<key>>]

\* Variant of get_user_by_name: a new entry goes to the front of the map.
get_user_by_name_prepend(us, name, outcome) ==
    LET key == to_lowercase(name)
        i == entry_index(us, key)
        res == fetch(key, outcome)
    IN IF has_key(us, key)
       THEN [ok |-> TRUE, i |-> i, about |-> us[i + 1].about, users |-> us,
             fetched |-> <<>>]
       ELSE IF res.ok
            THEN [ok |-> TRUE, i |-> 0, about |-> res.about,
                  users |-> <<[key |-> key, about |-> res.about]>> \o us,
                  fetched |-> <<key>>]
            ELSE [ok |-> FALSE, i |-> i, about |-> NoAbout, users |-> us,
                  fetched |-> <<key>>]

\* Variant of get_user_by_name: the key is the name as given, not lowercased.
get_user_by_name_case_sensitive(us, name, outcome) ==
    LET key == name
        i == entry_index(us, key)
        res == fetch(key, outcome)
    IN IF has_key(us, key)
       THEN [ok |-> TRUE, i |-> i, about |-> us[i + 1].about, users |-> us,
             fetched |-> <<>>]
       ELSE IF res.ok
            THEN [ok |-> TRUE, i |-> i, about |-> res.about,
                  users |-> Append(us, [key |-> key, about |-> res.about]),
                  fetched |-> <<key>>]
            ELSE [ok |-> FALSE, i |-> i, about |-> NoAbout, users |-> us,
                  fetched |-> <<key>>]

\* Variant of get_user_by_name: returns the position counted from one.
get_user_by_name_one_based(us, name, outcome) ==
    LET key == to_lowercase(name)
        i == entry_index(us, key) + 1
    IN IF has_key(us, key)
       THEN [ok |-> TRUE, i |-> i, about |-> us[i].about, users |-> us,
             fetched |-> <<>>]
       ELSE LET res == fetch(key, outcome)
            IN IF res.ok
               THEN [ok |-> TRUE, i |-> i, about |-> res.about,
                     users |-> Append(us, [key |-> key, about |-> res.about]),
                     fetched |-> <<key>>]
               ELSE [ok |-> FALSE, i |-> i, about |-> NoAbout, users |-> us,
                     fetched |-> <<key>>]

\* UserFS::get_user_by_name; `outcome` is what User::fetch returns if called.
\* fetched: the names User::fetch was called with.
get_user_by_name(us, name, outcome) ==
    LET key == to_lowercase(name)
        i == entry_index(us, key)
    IN IF has_key(us, key)
       THEN [ok |-> TRUE, i |-> i, about |-> us[i + 1].about, users |-> us,
             fetched |-> <<>>]
       ELSE LET res == fetch(key, outcome)
            IN IF res.ok
               THEN [ok |-> TRUE, i |-> i, about |-> res.about,
                     users |-> Append(us, [key |-> key, about |-> res.about]),
                     fetched |-> <<key>>]
               ELSE [ok |-> FALSE, i |-> i, about |-> NoAbout, users |-> us,
                     fetched |-> <<key>>]

\* get_index(idx).unwrap() panics when idx is out of range
has_user(us, idx) == idx \in 0..(Len(us) - 1)

\* UserFS::get_user
get_user(us, idx) == IF has_user(us, idx) THEN us[idx + 1].about ELSE NoAbout

\* UserFS::resource_content at wall-clock time t; panic: no content
resource_content(us, resource, t) ==
    LET about == get_user(us, resource.idx)
    IN CASE resource.tag = "LinkKarma" ->
              [panic |-> ~has_user(us, resource.idx),
               text |-> fmt_int(about.link_karma) \o <<NL>>]
         [] resource.tag = "CommentKarma" ->
              [panic |-> ~has_user(us, resource.idx),
               text |-> fmt_int(about.comment_karma) \o <<NL>>]
         [] resource.tag = "Created" ->
              [panic |-> ~has_user(us, resource.idx),
               text |-> fmt_int(about.created) \o <<NL>>]
         [] resource.tag = "Username" ->
              [panic |-> ~has_user(us, resource.idx),
               text |-> about.name \o <<NL>>]
         [] resource.tag = "Summary" ->
              [panic |-> ~has_user(us, resource.idx),
               text |-> summary(about, t)]
         [] OTHER -> [panic |-> TRUE, text |-> <<>>]

\* UserFS::resource_len
resource_len(us, resource, t) ==
    IF filetype(resource) = RegularFile
    THEN Len(resource_content(us, resource, t).text)
    ELSE 0

\* Variant of user_posts_of: fetches the posts again when they are cached.
user_posts_of_refetch(ps, username, outcome) ==
    LET res == fetch_user_posts(username, outcome)
    IN IF res.ok
       THEN [ok |-> TRUE, posts |-> res.posts,
             cache |-> (username :> res.posts) @@ ps, fetched |-> <<username>>]
       ELSE [ok |-> FALSE, posts |-> <<>>, cache |-> ps,
             fetched |-> <<username>>]

\* UserFS::user_posts; `outcome` is what fetch_user_posts returns if called
user_posts_of(ps, username, outcome) ==
    IF username \in DOMAIN ps
    THEN [ok |-> TRUE, posts |-> ps[username], cache |-> ps, fetched |-> <<>>]
    ELSE LET res == fetch_user_posts(username, outcome)
         IN IF res.ok
            THEN [ok |-> TRUE, posts |-> res.posts,
                  cache |-> (username :> res.posts) @@ ps, fetched |-> <<username>>]
            ELSE [ok |-> FALSE, posts |-> <<>>, cache |-> ps,
                  fetched |-> <<username>>]

N_linkkarma == <<"l","i","n","k","k","a","r","m","a">>
N_commentkarma == <<"c","o","m","m","e","n","t","k","a","r","m","a">>
N_username == <<"u","s","e","r","n","a","m","e">>
N_created == <<"c","r","e","a","t","e","d">>
N_summary == <<"s","u","m","m","a","r","y">>
N_posts == <<"_","p","o","s","t","s">>

\* Variant of lookup_user_resource: matches the name without regard to case.
lookup_user_resource_fold(name, i) ==
    LET n == to_lowercase(name)
    IN CASE n = N_linkkarma -> [some |-> TRUE, resource |-> LinkKarma(i)]
         [] n = N_commentkarma -> [some |-> TRUE, resource |-> CommentKarma(i)]
         [] n = N_username -> [some |-> TRUE, resource |-> Username(i)]
         [] n = N_created -> [some |-> TRUE, resource |-> Created(i)]
         [] n = N_summary -> [some |-> TRUE, resource |-> Summary(i)]
         [] n = N_posts -> [some |-> TRUE, resource |-> UserPosts(i)]
         [] OTHER -> [some |-> FALSE, resource |-> InvalidResource]

\* lookup_user_resource (user.rs:171-181); None when the name is not in the table
lookup_user_resource(name, i) ==
    CASE name = N_linkkarma -> [some |-> TRUE, resource |-> LinkKarma(i)]
      [] name = N_commentkarma -> [some |-> TRUE, resource |-> CommentKarma(i)]
      [] name = N_username -> [some |-> TRUE, resource |-> Username(i)]
      [] name = N_created -> [some |-> TRUE, resource |-> Created(i)]
      [] name = N_summary -> [some |-> TRUE, resource |-> Summary(i)]
      [] name = N_posts -> [some |-> TRUE, resource |-> UserPosts(i)]
      [] OTHER -> [some |-> FALSE, resource |-> InvalidResource]

----------------------------------------------------------------------------
(* impl fuse::Filesystem for UserFS (user.rs:183-315).  Each handler is an  *)
(* operator from the state and the request to the new registry, the new    *)
(* cache, the reply, whether the session survives, and the remote calls.   *)

Handled(us, ps, rep, fetched, posts_fetched) ==
    [users |-> us, user_posts |-> ps, reply |-> rep, alive |-> TRUE,
     fetched |-> fetched, posts_fetched |-> posts_fetched]

Panicked(us, ps, fetched, posts_fetched) ==
    [users |-> us, user_posts |-> ps, reply |-> reply_panic, alive |-> FALSE,
     fetched |-> fetched, posts_fetched |-> posts_fetched]

\* UserFS::lookup
lookup(us, ps, parent, name, outcome, t) ==
    LET p == from_ino(parent)
    IN CASE p.tag = "Invalid" -> Panicked(us, ps, <<>>, <<>>)
         [] p.tag = "Top" ->
              LET r == get_user_by_name(us, name, outcome)
              IN IF r.ok
                 THEN Handled(r.users, ps,
                              reply_entry(timespec(r.about),
                                          attrs(r.about, to_ino(User(r.i)), Directory, 0),
                                          0),
                              r.fetched, <<>>)
                 ELSE Handled(r.users, ps, reply_error(ENOENT), r.fetched, <<>>)
         [] p.tag = "User" ->
              LET l == lookup_user_resource(name, p.idx)
              IN IF ~l.some THEN Handled(us, ps, reply_error(ENOENT), <<>>, <<>>)
                 ELSE IF ~has_user(us, p.idx) THEN Panicked(us, ps, <<>>, <<>>)
                 ELSE LET user == get_user(us, p.idx)
                      IN Handled(us, ps,
                                 reply_entry(timespec(user),
                                             attrs(user, to_ino(l.resource),
                                                   filetype(l.resource),
                                                   resource_len(us, l.resource, t)),
                                             0),
                                 <<>>, <<>>)
         [] OTHER -> Handled(us, ps, reply_dropped, <<>>, <<>>)

\* Variant of getattr: the attributes of a posts directory put an empty
\* listing into the cache.
getattr_caches_posts(us, ps, ino, t) ==
    LET resource == from_ino(ino)
    IN CASE resource.tag = "Invalid" -> Panicked(us, ps, <<>>, <<>>)
         [] resource.tag = "Top" ->
              Handled(us, ps, reply_attr(0, top_attrs(ino)), <<>>, <<>>)
         [] OTHER ->
              IF ~has_user(us, resource.idx) THEN Panicked(us, ps, <<>>, <<>>)
              ELSE LET user == get_user(us, resource.idx)
                   IN Handled(us,
                              IF resource.tag = "UserPosts" /\ user.name \notin DOMAIN ps
                              THEN (user.name :> <<>>) @@ ps
                              ELSE ps,
                              reply_attr(timespec(user),
                                         attrs(user, ino, filetype(resource),
                                               resource_len(us, resource, t))),
                              <<>>, <<>>)

\* UserFS::getattr
getattr(us, ps, ino, t) ==
    LET resource == from_ino(ino)
    IN CASE resource.tag = "Invalid" -> Panicked(us, ps, <<>>, <<>>)
         [] resource.tag = "Top" ->
              Handled(us, ps, reply_attr(0, top_attrs(ino)), <<>>, <<>>)
         [] OTHER ->
              IF ~has_user(us, resource.idx) THEN Panicked(us, ps, <<>>, <<>>)
              ELSE LET user == get_user(us, resource.idx)
                   IN Handled(us, ps,
                              reply_attr(timespec(user),
                                         attrs(user, ino, filetype(resource),
                                               resource_len(us, resource, t))),
                              <<>>, <<>>)

\* UserFS::read; _offset and _size are not used
read(us, ps, ino, offset, size, t) ==
    LET resource == from_ino(ino)
        data == resource_content(us, resource, t)
    IN IF resource.tag = "Invalid" \/ data.panic
       THEN Panicked(us, ps, <<>>, <<>>)
       ELSE Handled(us, ps, reply_data(data.text), <<>>, <<>>)

DirEntry(ino, ftype, name) == [ino |-> ino, kind |-> ftype, name |-> name]

\* the vec! readdir starts from
dot_entries == << DirEntry(1, Directory, <<".">>), DirEntry(1, Directory, <<".", ".">>) >>

\* the file names readdir lists for a user, in its order
user_filenames ==
    << N_linkkarma, N_commentkarma, N_username, N_created, N_summary, N_posts >>

\* Variant of top_entries: numbers the users from one.
top_entries_one_based(us) ==
    [j \in 1..Len(us) |-> DirEntry(to_ino(User(j)), Directory, us[j].key)]

\* Variant of top_entries: names an entry by the profile's display name.
top_entries_display_name(us) ==
    [j \in 1..Len(us) |-> DirEntry(to_ino(User(j - 1)), Directory, us[j].about.name)]

\* what readdir pushes for Top: one entry per key of the registry
top_entries(us) ==
    [j \in 1..Len(us) |-> DirEntry(to_ino(User(j - 1)), Directory, us[j].key)]

\* Variant of user_entries: builds the resources of the first user.
user_entries_first_user(idx) ==
    [j \in 1..Len(user_filenames) |->
        LET resource == lookup_user_resource(user_filenames[j], 0).resource
        IN DirEntry(to_ino(resource), filetype(resource), user_filenames[j])]

\* what readdir extends `out` with for User(idx)
user_entries(idx) ==
    [j \in 1..Len(user_filenames) |->
        LET resource == lookup_user_resource(user_filenames[j], idx).resource
        IN DirEntry(to_ino(resource), filetype(resource), user_filenames[j])]

\* the loop over the posts pushes nothing
posts_entries(posts) == <<>>

\* Variant of added_entries: reports the zero-based position of each entry.
added_entries_zero_based(out, offset) ==
    IF offset >= Len(out) THEN <<>>
    ELSE [j \in 1..(Len(out) - offset) |->
            [ino |-> out[offset + j].ino, offset |-> offset + j - 1,
             kind |-> out[offset + j].kind, name |-> out[offset + j].name]]

\* the final loop: out.iter().enumerate().skip(offset), reply.add(ino, i + 1, ..)
added_entries(out, offset) ==
    IF offset >= Len(out) THEN <<>>
    ELSE [j \in 1..(Len(out) - offset) |->
            [ino |-> out[offset + j].ino, offset |-> offset + j,
             kind |-> out[offset + j].kind, name |-> out[offset + j].name]]

\* UserFS::readdir; `outcome` is what fetch_user_posts returns if called
readdir(us, ps, ino, offset, outcome) ==
    LET resource == from_ino(ino)
    IN CASE resource.tag = "Invalid" -> Panicked(us, ps, <<>>, <<>>)
         [] resource.tag = "Top" ->
              Handled(us, ps,
                      reply_dir(added_entries(dot_entries \o top_entries(us), offset)),
                      <<>>, <<>>)
         [] resource.tag = "User" ->
              Handled(us, ps,
                      reply_dir(added_entries(dot_entries \o user_entries(resource.idx),
                                              offset)),
                      <<>>, <<>>)
         [] resource.tag = "UserPosts" ->
              IF ~has_user(us, resource.idx) THEN Panicked(us, ps, <<>>, <<>>)
              ELSE LET username == get_user(us, resource.idx).name
                       r == user_posts_of(ps, username, outcome)
                   IN IF ~r.ok THEN Panicked(us, ps, <<>>, r.fetched)
                      ELSE Handled(us, r.cache,
                                   reply_dir(added_entries(
                                       dot_entries \o posts_entries(r.posts), offset)),
                                   <<>>, r.fetched)
         [] OTHER -> Handled(us, ps, reply_error(ENOTDIR), <<>>, <<>>)

----------------------------------------------------------------------------
(* The state machine: the host runtime delivers one callback at a time and  *)
(* takes its reply before it delivers the next.                             *)

\* the resources whose index the registry has assigned
Resources(us) ==
    {Top} \cup { [tag |-> DataTags[k], idx |-> i] :
                    k \in 1..Len(DataTags), i \in 0..(Len(us) - 1) }

\* the handles the host can hold: those the adapter can have issued
Handles(us) == { to_ino(r) : r \in Resources(us) }

\* names the host looks up under a user directory
ChildNames ==
    { N_linkkarma, N_commentkarma, N_username, N_created, N_summary, N_posts,
      <<"S","u","m","m","a","r","y">>, <<"a","l">> }

LookupNames(parent) ==
    CASE from_ino(parent).tag = "Top" -> UserNames
      [] from_ino(parent).tag = "User" -> ChildNames
      [] OTHER -> { N_summary, <<"a","l">> }

Offsets == 0..MaxOffset
ReadSizes == {1, 4096}

Request(op, ino, name, offset, size, fetch_result) ==
    [op |-> op, ino |-> ino, name |-> name, offset |-> offset, size |-> size,
     fetch |-> fetch_result]

NoRequest == Request("none", 0, <<>>, 0, 0, "none")

\* how the remote call of a handler ended, if it made one
FetchResult(fetched, outcome) ==
    IF fetched = <<>> THEN "none" ELSE IF outcome.ok THEN "ok" ELSE "fail"

Counted(counts, fetched) ==
    IF fetched = <<>> THEN counts
    ELSE [counts EXCEPT ![fetched[1]] = @ + 1]

\* no callback is being served
Idle == alive /\ reply.kind = "none"

Init ==
    /\ users = <<>>
    /\ user_posts = <<>>
    /\ now = Now0
    /\ alive = TRUE
    /\ req = NoRequest
    /\ reply = NoReply
    /\ host_attr = NoAttr
    /\ fetches = [k \in Keys |-> 0]
    /\ postFetches = [n \in UserNames |-> 0]

\* what a handler's result does to the state
Serve(r, request) ==
    /\ users' = r.users
    /\ user_posts' = r.user_posts
    /\ reply' = r.reply
    /\ alive' = r.alive
    /\ fetches' = Counted(fetches, r.fetched)
    /\ postFetches' = Counted(postFetches, r.posts_fetched)
    /\ req' = request
    /\ host_attr' = NoAttr
    /\ UNCHANGED now

Lookup(parent, name, outcome) ==
    /\ Idle
    /\ LET r == lookup(users, user_posts, parent, name, outcome, now)
       IN /\ r.fetched # <<>> => fetches[r.fetched[1]] < MaxFetches
          /\ Serve(r, Request("lookup", parent, name, 0, 0,
                              FetchResult(r.fetched, outcome)))

GetAttr(ino) ==
    /\ Idle
    /\ Serve(getattr(users, user_posts, ino, now),
             Request("getattr", ino, <<>>, 0, 0, "none"))

Read(ino, offset, size) ==
    /\ Idle
    /\ Serve(read(users, user_posts, ino, offset, size, now),
             Request("read", ino, <<>>, offset, size, "none"))

ReadDir(ino, offset, outcome) ==
    /\ Idle
    /\ LET r == readdir(users, user_posts, ino, offset, outcome)
       IN Serve(r, Request("readdir", ino, <<>>, offset, 0,
                           FetchResult(r.posts_fetched, outcome)))

\* the host takes the reply; if `keep`, it keeps the attributes the reply carried
Return(keep) ==
    /\ alive
    /\ reply.kind # "none"
    /\ req' = NoRequest
    /\ reply' = NoReply
    /\ host_attr' = IF keep /\ reply.kind \in {"entry", "attr"} THEN reply.attr ELSE NoAttr
    /\ UNCHANGED <<users, user_posts, now, alive, fetches, postFetches>>

\* the wall clock moves on between callbacks
Tick ==
    /\ Idle
    /\ now < Now0 + MaxTicks
    /\ now' = now + 1
    /\ UNCHANGED <<users, user_posts, alive, req, reply, host_attr, fetches, postFetches>>

\* the host delivers a callback once the previous one is answered
Callback ==
    \/ Idle /\ \E parent \in Handles(users) : \E name \in LookupNames(parent) :
         \E outcome \in FetchOutcomes(name) : Lookup(parent, name, outcome)
    \/ Idle /\ \E ino \in Handles(users) : GetAttr(ino)
    \/ Idle /\ \E ino \in Handles(users) : \E offset \in Offsets : \E size \in ReadSizes :
         Read(ino, offset, size)
    \/ Idle /\ \E ino \in Handles(users) : \E offset \in Offsets :
         \E outcome \in PostOutcomes : ReadDir(ino, offset, outcome)

Next == Callback \/ Return(FALSE) \/ Tick

Spec == Init /\ [][Next]_vars

\* the same adapter under a host that may keep the attributes it was given
NextKeep == Callback \/ (\E keep \in BOOLEAN : Return(keep)) \/ Tick

SpecKeep == Init /\ [][NextKeep]_vars

----------------------------------------------------------------------------
(* Properties. *)

\* a lookup under the root is being answered
LookupTopServed == req.op = "lookup" /\ from_ino(req.ino).tag = "Top"

\* two names that differ at most in the case of their letters
SameFolded(a, b) ==
    /\ Len(a) = Len(b)
    /\ \A i \in 1..Len(a) :
         \/ a[i] = b[i]
         \/ \E j \in 1..Len(UpperChars) : {a[i], b[i]} = {UpperChars[j], LowerChars[j]}

\* C1, as stated: however the fetches end, resolving one folded name any number
\* of times issues one remote fetch-profile call for it in total.
C1_FetchOnceInTotal == \A k \in Keys : fetches[k] <= 1

\* C1, amended: resolving a folded name the registry holds issues no remote
\* fetch-profile call; a call is issued only by a lookup under the root of a name
\* the registry does not hold, one call per such lookup, and a call that succeeds
\* registers the name.
C1_FetchOnceKnown ==
    [][\A k \in Keys :
         /\ has_key(users, k) => fetches'[k] = fetches[k]
         /\ fetches'[k] # fetches[k] =>
              /\ fetches'[k] = fetches[k] + 1
              /\ ~has_key(users, k)
              /\ req'.op = "lookup"
              /\ from_ino(req'.ino) = Top
              /\ SameFolded(req'.name, k)
              /\ req'.fetch = "ok" => has_key(users', k)]_vars

\* a name the registry holds is resolved again, with a single fetch behind it
C1_Witness ==
    /\ LookupTopServed
    /\ reply.kind = "entry"
    /\ req.fetch = "none"
    /\ fetches[to_lowercase(req.name)] = 1

\* C2: a lookup under the root whose fetch fails replies ENOENT and leaves the
\* registry as it was; the next new name that resolves gets the index equal to
\* the registry's size, which the failed call did not change.
C2_FailedFetchLeavesRegistry ==
    [][\A k \in Keys :
         fetches'[k] # fetches[k] =>
            /\ req'.fetch = "fail" =>
                 /\ reply' = reply_error(ENOENT)
                 /\ users' = users
                 /\ user_posts' = user_posts
                 /\ alive'
            /\ req'.fetch = "ok" =>
                 /\ reply'.kind = "entry"
                 /\ reply'.attr.ino = to_ino(User(Len(users)))
                 /\ Len(users') = Len(users) + 1
                 /\ users'[Len(users')].key = k]_vars

\* a name whose first fetch failed resolves at the second, into an empty registry
C2_Witness ==
    /\ LookupTopServed
    /\ req.fetch = "ok"
    /\ fetches[to_lowercase(req.name)] = 2
    /\ Len(users) = 1
    /\ reply.attr.ino = to_ino(User(0))

\* C3: indices are given out in order of first successful resolution, and every
\* entry keeps its index, its key and its profile; a lookup under the root
\* answers with the index at which the registry holds the folded name.
C3_IndicesSequentialStable ==
    [][/\ Len(users') \in {Len(users), Len(users) + 1}
       /\ \A i \in 1..Len(users) : users'[i] = users[i]
       /\ Len(users') = Len(users) + 1 =>
            /\ ~has_key(users, users'[Len(users')].key)
            /\ reply'.kind = "entry"
            /\ from_ino(reply'.attr.ino) = User(Len(users))
       /\ (req'.op = "lookup" /\ from_ino(req'.ino).tag = "Top" /\ reply'.kind = "entry") =>
            LET r == from_ino(reply'.attr.ino)
            IN /\ r.tag = "User"
               /\ has_user(users', r.idx)
               /\ SameFolded(users'[r.idx + 1].key, req'.name)
               /\ reply'.attr.time = users'[r.idx + 1].about.created]_vars

\* the first user is resolved again after a second one was registered
C3_Witness ==
    /\ LookupTopServed
    /\ reply.kind = "entry"
    /\ Len(users) = 2
    /\ req.fetch = "none"
    /\ from_ino(reply.attr.ino) = User(0)

\* C4: once a name has resolved under the root, every name equal to it up to
\* case resolves to the same index and the same UserDir handle.
C4_CaseInsensitiveIdentity ==
    (LookupTopServed /\ reply.kind = "entry") =>
        \A n \in UserNames :
           SameFolded(n, req.name) =>
              \A outcome \in FetchOutcomes(n) :
                 LET r == lookup(users, user_posts, to_ino(Top), n, outcome, now)
                 IN /\ r.reply.kind = "entry"
                    /\ r.reply.attr.ino = reply.attr.ino
                    /\ from_ino(r.reply.attr.ino).tag = "User"
                    /\ r.users = users

\* the lower-case name resolves to the second index, held under the same key
\* as its capitalised spelling
C4_Witness ==
    /\ LookupTopServed
    /\ reply.kind = "entry"
    /\ req.name = <<"a","l">>
    /\ from_ino(reply.attr.ino) = User(1)
    /\ \E n \in UserNames : n # req.name /\ SameFolded(n, req.name)

\* the bytes [offset, offset + size) of a content, cut to the content's bounds
byte_slice(content, offset, size) ==
    IF offset >= Len(content) THEN <<>>
    ELSE SubSeq(content, offset + 1,
                IF offset + size < Len(content) THEN offset + size ELSE Len(content))

\* the errno of "is a directory"
EISDIR == "EISDIR"

\* the names of lookup's fixed table
FieldTable ==
    { N_linkkarma, N_commentkarma, N_username, N_created, N_summary, N_posts }

\* C5: the size the host was given for a file, by lookup or by getattr, is the
\* byte length of the content a read of that file then returns.
C5_SizeAgreesWithContent ==
    [][(/\ req'.op = "read"
        /\ reply'.kind = "data"
        /\ host_attr.kind = RegularFile
        /\ host_attr.ino = req'.ino)
       => Len(reply'.data) = host_attr.size]_vars

\* C6: a read of a file returns the bytes [offset, offset + size) of its content
\* cut to the content's bounds, and nothing when the offset is at or past the end.
C6_ReadReturnsSlice ==
    (req.op = "read" /\ filetype(from_ino(req.ino)) = RegularFile) =>
        /\ reply.kind = "data"
        /\ reply.data = byte_slice(resource_content(users, from_ino(req.ino), now).text,
                                   req.offset, req.size)

\* C7: a read of Top, of a user directory or of a posts directory is answered
\* with the error EISDIR, and the adapter goes on serving.
C7_ReadOfDirectoryIsError ==
    (req.op = "read" /\ filetype(from_ino(req.ino)) = Directory) =>
        /\ reply = reply_error(EISDIR)
        /\ alive

\* C8: a lookup whose parent is a posts directory or a file replies ENOENT,
\* whatever the name.
C8_OtherParentNotFound ==
    (req.op = "lookup" /\ from_ino(req.ino).tag \notin {"Top", "User"}) =>
        reply = reply_error(ENOENT)

C10_TopListingComplete ==
    (req.op = "readdir" /\ from_ino(req.ino) = Top /\ req.offset = 0) =>
        /\ reply.kind = "dir"
        /\ Len(reply.entries) = 2 + Len(users)
        /\ reply.entries[1].name = <<".">>
        /\ reply.entries[2].name = <<".", ".">>
        /\ \A i \in 1..Len(users) :
             LET e == reply.entries[2 + i]
                 r == lookup(users, user_posts, to_ino(Top), e.name,
                             [ok |-> FALSE, about |-> NoAbout], now)
             IN /\ e.kind = Directory
                /\ e.ino = to_ino(User(i - 1))
                /\ e.offset = 2 + i
                /\ SameFolded(e.name, users[i].key)
                /\ r.reply.kind = "entry"
                /\ r.reply.attr.ino = e.ino

\* Top is listed with two users registered
C10_Witness ==
    /\ req.op = "readdir"
    /\ from_ino(req.ino) = Top
    /\ req.offset = 0
    /\ Len(users) = 2
    /\ Len(reply.entries) = 4

\* the listing of Top the adapter serves from offset 0 in the current state
TopListing == added_entries(dot_entries \o top_entries(users), 0)

\* a name without an upper-case letter
AllLower(name) ==
    \A i \in 1..Len(name) : \A j \in 1..Len(UpperChars) : name[i] # UpperChars[j]

\* C11, as stated: once a name has been resolved under the root for the first
\* time, the listing of Top has an entry with that name as it was given.
C11_ListedByOriginalName ==
    (LookupTopServed /\ reply.kind = "entry" /\ req.fetch = "ok") =>
        \E j \in 1..Len(TopListing) : TopListing[j].name = req.name

\* C11, amended: every user entry of the listing of Top is named by the
\* lower-cased key the user is registered under; once a name has been resolved
\* under the root, the listing has the entry of its lower-case form.
C11_ListedByFoldedName ==
    /\ (req.op = "readdir" /\ from_ino(req.ino) = Top /\ req.offset = 0) =>
          /\ reply.kind = "dir"
          /\ Len(reply.entries) = 2 + Len(users)
          /\ \A i \in 1..Len(users) :
                /\ reply.entries[2 + i].name = users[i].key
                /\ AllLower(reply.entries[2 + i].name)
    /\ (LookupTopServed /\ reply.kind = "entry") =>
          \E j \in 3..Len(TopListing) :
             /\ SameFolded(TopListing[j].name, req.name)
             /\ AllLower(TopListing[j].name)
             /\ TopListing[j].ino = reply.attr.ino

\* the capitalised name is resolved for the first time and listed in lower case
C11_Witness ==
    /\ LookupTopServed
    /\ reply.kind = "entry"
    /\ req.fetch = "ok"
    /\ req.name = <<"A","l">>
    /\ \E j \in 3..Len(TopListing) : TopListing[j].name = <<"a","l">>

\* C12: the listing of a user directory from offset 0 is `.`, `..`, linkkarma,
\* commentkarma, username, created, summary, _posts in this order; the five
\* fields are regular files, _posts is a directory, and each named entry has
\* the handle a lookup of its name under that directory returns.
C12_UserListing ==
    (req.op = "readdir" /\ from_ino(req.ino).tag = "User" /\ req.offset = 0) =>
        /\ reply.kind = "dir"
        /\ [j \in 1..Len(reply.entries) |-> reply.entries[j].name] =
              << <<".">>, <<".", ".">>,
                 <<"l","i","n","k","k","a","r","m","a">>,
                 <<"c","o","m","m","e","n","t","k","a","r","m","a">>,
                 <<"u","s","e","r","n","a","m","e">>,
                 <<"c","r","e","a","t","e","d">>,
                 <<"s","u","m","m","a","r","y">>,
                 <<"_","p","o","s","t","s">> >>
        /\ \A j \in 3..7 : reply.entries[j].kind = RegularFile
        /\ reply.entries[8].kind = Directory
        /\ \A j \in 3..8 :
             LET r == lookup(users, user_posts, req.ino, reply.entries[j].name,
                             [ok |-> FALSE, about |-> NoAbout], now)
             IN /\ r.reply.kind = "entry"
                /\ r.reply.attr.ino = reply.entries[j].ino
                /\ r.reply.attr.kind = reply.entries[j].kind
                /\ from_ino(reply.entries[j].ino).idx = from_ino(req.ino).idx

\* the directory of the second user is listed
C12_Witness ==
    /\ req.op = "readdir"
    /\ from_ino(req.ino) = User(1)
    /\ req.offset = 0
    /\ Len(reply.entries) = 8

\* a listing of a posts directory is being answered
PostsListingServed == req.op = "readdir" /\ from_ino(req.ino).tag = "UserPosts"

\* the key of the post cache for the posts directory in service
PostsKey == get_user(users, from_ino(req.ino).idx).name

\* C13: the listing of a posts directory from offset 0 has, after `.` and `..`,
\* one entry per post cached for the user: 2 + k entries for k posts.
C13_PostsListed ==
    (PostsListingServed /\ req.offset = 0 /\ reply.kind = "dir") =>
        /\ PostsKey \in DOMAIN user_posts
        /\ Len(reply.entries) = 2 + Len(user_posts[PostsKey])

\* C14: when the fetch of the posts fails, the listing is answered empty or with
\* an error, nothing enters the post cache and the adapter goes on serving.
C14_FailedPostsFetchNotFatal ==
    (PostsListingServed /\ req.fetch = "fail") =>
        /\ alive
        /\ reply.kind \in {"dir", "error"}
        /\ reply.kind = "dir" => Len(reply.entries) <= 2
        /\ PostsKey \notin DOMAIN user_posts

\* C16: every entry reply of lookup, under Top and under a user directory,
\* carries a validity time of zero.
C16_EntryTtlZero ==
    (req.op = "lookup" /\ reply.kind = "entry") => reply.ttl = 0

\* every resource with an index up to MaxIndex
CodecResources ==
    {Top} \cup { [tag |-> DataTags[k], idx |-> i] :
                    k \in 1..Len(DataTags), i \in 0..MaxIndex }

\* the handles a reply gives to the host
IssuedHandles(rep) ==
    (IF rep.kind \in {"entry", "attr"} THEN {rep.attr.ino} ELSE {})
    \cup { rep.entries[j].ino : j \in 1..Len(rep.entries) }

\* C15: decoding the handle of a resource gives the resource back, two resources
\* never share a handle, the tags are pairwise distinct and fit the tag field,
\* and the handle of Top is 1; every handle the adapter gives out decodes to a
\* resource that encodes to it again.
C15_HandleBijection ==
    /\ \A r \in CodecResources : from_ino(to_ino(r)) = r
    /\ Cardinality({ to_ino(r) : r \in CodecResources }) = Cardinality(CodecResources)
    /\ to_ino(Top) = 1
    /\ LET tags == { tag_num(DataTags[k]) : k \in 1..Len(DataTags) }
       IN /\ Cardinality(tags) = Len(DataTags)
          /\ tags \subseteq 0..(TagSpace - 1)
          /\ to_ino(Top) \notin tags
    /\ \A h \in IssuedHandles(reply) :
          /\ from_ino(h).tag # "Invalid"
          /\ to_ino(from_ino(h)) = h

\* the posts directory of the second user has been given its handle
C15_Witness ==
    /\ req.op = "lookup"
    /\ reply.kind = "entry"
    /\ from_ino(reply.attr.ino) = UserPosts(1)
    /\ reply.attr.ino = TagSpace + 8

\* a posts fetch that fails, for listings that must be served without one
NoPostsFetch == [ok |-> FALSE, posts |-> <<>>]

\* the entries readdir adds for the directory of the request in flight, from
\* `offset`, with the caches as they are now
ListingFrom(offset) ==
    readdir(users, user_posts, req.ino, offset, NoPostsFetch).reply.entries

\* a sequence without its first k elements
Rest(seq, k) == SubSeq(seq, k + 1, Len(seq))

\* C17: a listing served from offset k holds the entries of the listing from 0
\* without the first k, every entry reports its 1-based position in the full
\* listing, asking again gives the same reply and changes no cache, and the
\* listing from any reported position is exactly what follows that entry.
C17_ListingResumes ==
    (req.op = "readdir" /\ reply.kind = "dir") =>
        LET full == ListingFrom(0)
            again == readdir(users, user_posts, req.ino, req.offset, NoPostsFetch)
        IN /\ reply.entries = Rest(full, req.offset)
           /\ \A j \in 1..Len(full) : full[j].offset = j
           /\ again.reply = reply
           /\ again.users = users
           /\ again.user_posts = user_posts
           /\ again.fetched = <<>>
           /\ again.posts_fetched = <<>>
           /\ \A j \in 1..Len(full) :
                 ListingFrom(full[j].offset) = Rest(full, j)

\* a user's directory has been listed from offset 2: six entries, the first
\* one linkkarma at position 3
C17_Witness ==
    /\ req.op = "readdir"
    /\ from_ino(req.ino) = User(0)
    /\ req.offset = 2
    /\ reply.kind = "dir"
    /\ Len(reply.entries) = 6
    /\ reply.entries[1].name = N_linkkarma
    /\ reply.entries[1].offset = 3

\* the handle decodes to Top or to a resource of a user the registry holds
ValidHandle(us, h) ==
    LET r == from_ino(h)
    IN \/ r.tag = "Top"
       \/ /\ r.tag # "Invalid"
          /\ r.idx >= 0
          /\ r.idx < Len(us)

\* the step delivers a callback to the adapter
Served == reply.kind = "none" /\ reply'.kind # "none"

\* the other ways a handler panics: read has no content for a directory, and
\* readdir expects the posts fetch to succeed
OtherPanic(request) ==
    \/ /\ request.op = "read"
       /\ from_ino(request.ino).tag \in {"Top", "User", "UserPosts"}
    \/ /\ request.op = "readdir"
       /\ from_ino(request.ino).tag = "UserPosts"
       /\ request.fetch = "fail"

\* C18: every handle a reply gives out decodes to Top or to an index below the
\* size of the registry, a handle that was valid stays valid, and a callback
\* on a valid handle is never answered by the panic of get_user on an index
\* the registry does not hold.
C18_IssuedHandlesValid ==
    [][ /\ Served => \A h \in IssuedHandles(reply') : ValidHandle(users', h)
        /\ users' # users =>
              \A h \in Handles(users) : ValidHandle(users, h) /\ ValidHandle(users', h)
        /\ (Served /\ ValidHandle(users, req'.ino)) =>
              /\ ValidHandle(users', req'.ino)
              /\ reply'.kind = "panic" => OtherPanic(req')
      ]_vars

\* the directory of the second of two users has been listed
C18_Witness ==
    /\ Len(users) = 2
    /\ req.op = "readdir"
    /\ from_ino(req.ino) = User(1)
    /\ reply.kind = "dir"
    /\ \E j \in 1..Len(reply.entries) : from_ino(reply.entries[j].ino) = Summary(1)

\* the callbacks that make no remote call: getattr, read, readdir of Top or of
\* a user's directory, and lookup under a user's directory
Local(request) ==
    \/ request.op \in {"getattr", "read"}
    \/ request.op = "readdir" /\ from_ino(request.ino).tag \in {"Top", "User"}
    \/ request.op = "lookup" /\ from_ino(request.ino).tag = "User"

\* C19: the registry changes only when a lookup under Top of a name whose key
\* it does not hold has fetched the profile, and then by one appended entry;
\* the posts cache changes only when a readdir of a posts directory whose
\* user has no cached posts has fetched them; only a served callback makes a
\* remote call, and the local callbacks make none and leave both untouched.
C19_Frame ==
    [][ /\ users' # users =>
              /\ Served
              /\ req'.op = "lookup"
              /\ from_ino(req'.ino).tag = "Top"
              /\ req'.fetch = "ok"
              /\ ~has_key(users, to_lowercase(req'.name))
              /\ Len(users') = Len(users) + 1
              /\ SubSeq(users', 1, Len(users)) = users
              /\ users'[Len(users')].key = to_lowercase(req'.name)
        /\ user_posts' # user_posts =>
              /\ Served
              /\ req'.op = "readdir"
              /\ from_ino(req'.ino).tag = "UserPosts"
              /\ req'.fetch = "ok"
              /\ reply'.kind = "dir"
              /\ LET key == get_user(users, from_ino(req'.ino).idx).name
                 IN /\ key \notin DOMAIN user_posts
                    /\ DOMAIN user_posts' = DOMAIN user_posts \cup {key}
                    /\ \A n \in DOMAIN user_posts : user_posts'[n] = user_posts[n]
        /\ ~Served => UNCHANGED <<fetches, postFetches>>
        /\ (Served /\ Local(req')) =>
              /\ req'.fetch = "none"
              /\ UNCHANGED <<users, user_posts, fetches, postFetches>>
      ]_vars

\* the attributes of a posts directory have been served while its user's
\* posts are cached
C19_Witness ==
    /\ req.op = "getattr"
    /\ from_ino(req.ino).tag = "UserPosts"
    /\ reply.kind = "attr"
    /\ get_user(users, from_ino(req.ino).idx).name \in DOMAIN user_posts
    /\ Len(users) = 2

\* the step serves a readdir of a posts directory
PostsListingStep ==
    Served /\ req'.op = "readdir" /\ from_ino(req'.ino).tag = "UserPosts"

\* the canonical names of the profiles in the registry
CanonicalNames(us) == { us[i].about.name : i \in 1..Len(us) }

\* C20: once a user's posts are cached they are never fetched again and the
\* cached list stays as it is, a listing of the posts directory is then served
\* from the cache; posts are fetched only by a readdir of a posts directory,
\* once, under the name of that user's profile; the keys of the cache are
\* names of profiles in the registry; and the request asks for at most 10
\* posts, so no cached list is longer.
C20_PostsFetchedOnce ==
    [][ /\ \A n \in DOMAIN user_posts :
              /\ postFetches'[n] = postFetches[n]
              /\ n \in DOMAIN user_posts'
              /\ user_posts'[n] = user_posts[n]
        /\ \A n \in UserNames :
              postFetches'[n] # postFetches[n] =>
                 /\ postFetches'[n] = postFetches[n] + 1
                 /\ PostsListingStep
                 /\ n = get_user(users, from_ino(req'.ino).idx).name
                 /\ posts_url(n).user = n
                 /\ posts_url(n).limit <= 10
        /\ (PostsListingStep
              /\ get_user(users, from_ino(req'.ino).idx).name \in DOMAIN user_posts) =>
                 /\ req'.fetch = "none"
                 /\ reply'.kind = "dir"
        /\ DOMAIN user_posts' \subseteq CanonicalNames(users')
        /\ \A n \in DOMAIN user_posts' : Len(user_posts'[n]) <= 10
      ]_vars

\* a posts directory has been listed from the cache, which holds the ten posts
\* of the one fetch made for a user with more
C20_Witness ==
    /\ PostsListingServed
    /\ req.fetch = "none"
    /\ reply.kind = "dir"
    /\ PostsKey \in DOMAIN user_posts
    /\ postFetches[PostsKey] = 1
    /\ Len(user_posts[PostsKey]) = PostsLimit

====
